---------------------------- MODULE Spec2Model ----------------------------
(***************************************************************************)
(* Market-share aggregation engine (src/aggregator.py), its configuration  *)
(* manager (src/config.py) and the yearly-column allocator of the V1_2     *)
(* working script (src/LastWorkings/market_share_working - V1_2.py).       *)
(*                                                                         *)
(* Representation.                                                         *)
(*  - A Python float is an exact rational [n |-> numerator, d |-> denom]   *)
(*    in lowest terms: the properties below are stated by the program's    *)
(*    documentation "within 1e-6", which covers IEEE-754 rounding; inf and *)
(*    nan computed values are outside the model (null cells are modelled). *)
(*  - A Python str is a sequence of one-character strings, so that strip,  *)
(*    upper and float() parsing are computed and not assumed.              *)
(*  - A cell of the data frame is a tagged record: null (NaN), an int, a   *)
(*    float or a str.                                                      *)
(*  - A Python dict is an insertion-ordered sequence of <<key, value>>     *)
(*    pairs with distinct keys.                                            *)
(*  - A raised exception is the record [exc |-> <exception class>].        *)
(***************************************************************************)
EXTENDS Integers, Sequences, FiniteSets, TLC

(***************************************************************************)
(* Exact arithmetic standing for float arithmetic                          *)
(***************************************************************************)
Abs(x) == IF x < 0 THEN -x ELSE x

RECURSIVE GCD(_, _)
GCD(a, b) == IF b = 0 THEN a ELSE GCD(b, a % b)

Rat(num, den) ==
    LET g == GCD(Abs(num), Abs(den))
        s == IF den < 0 THEN -1 ELSE 1
    IN  [n |-> (s * num) \div g, d |-> (s * den) \div g]

RInt(k) == [n |-> k, d |-> 1]
RZero == RInt(0)
RAdd(a, b) == Rat(a.n * b.d + b.n * a.d, a.d * b.d)
RMul(a, b) == Rat(a.n * b.n, a.d * b.d)
RDiv(a, b) == Rat(a.n * b.d, a.d * b.n)
RLt(a, b) == a.n * b.d < b.n * a.d
RLe(a, b) == a.n * b.d <= b.n * a.d
RGt(a, b) == RLt(b, a)

(***************************************************************************)
(* Strings                                                                 *)
(***************************************************************************)
LowerChars == <<"a","b","c","d","e","f","g","h","i","j","k","l","m",
                "n","o","p","q","r","s","t","u","v","w","x","y","z">>
UpperChars == <<"A","B","C","D","E","F","G","H","I","J","K","L","M",
                "N","O","P","Q","R","S","T","U","V","W","X","Y","Z">>
Whitespace == {" ", "\t", "\n"}
Digits == <<"0","1","2","3","4","5","6","7","8","9">>

\* str.upper(), one character
UpperChar(c) ==
    IF \E i \in 1..26 : LowerChars[i] = c
    THEN UpperChars[CHOOSE i \in 1..26 : LowerChars[i] = c]
    ELSE c

\* str.upper()
StrUpper(s) == [i \in 1..Len(s) |-> UpperChar(s[i])]

RECURSIVE LStrip(_)
LStrip(s) == IF s # <<>> /\ Head(s) \in Whitespace THEN LStrip(Tail(s)) ELSE s

RECURSIVE RStrip(_)
RStrip(s) ==
    IF s # <<>> /\ s[Len(s)] \in Whitespace
    THEN RStrip(SubSeq(s, 1, Len(s) - 1))
    ELSE s

\* a mutant of str.strip(): only the leading whitespace is dropped
StrStrip_leading(s) == LStrip(s)

\* str.strip()
StrStrip(s) == RStrip(LStrip(s))

IsDigit(c) == \E i \in 1..10 : Digits[i] = c
DigitVal(c) == (CHOOSE i \in 1..10 : Digits[i] = c) - 1

RECURSIVE DigitsVal(_)
DigitsVal(s) ==
    IF s = <<>> THEN 0 ELSE DigitsVal(SubSeq(s, 1, Len(s) - 1)) * 10 + DigitVal(s[Len(s)])

RECURSIVE Pow10(_)
Pow10(k) == IF k = 0 THEN 1 ELSE 10 * Pow10(k - 1)

RECURSIVE NatStr(_)
NatStr(k) == IF k < 10 THEN <<Digits[k + 1]>> ELSE NatStr(k \div 10) \o <<Digits[(k % 10) + 1]>>

IntStr(k) == IF k < 0 THEN <<"-">> \o NatStr(-k) ELSE NatStr(k)

(***************************************************************************)
(* Cells                                                                   *)
(***************************************************************************)
NaN == [t |-> "null"]
IntCell(k) == [t |-> "int", v |-> RInt(k)]
FloatCell(r) == [t |-> "float", v |-> r]
StrCell(s) == [t |-> "str", s |-> s]

\* pd.isnull(value)
IsNull(cell) == cell.t = "null"

\* str(value): a str is itself, an int its decimal digits, NaN is "nan" and a
\* float its shortest repr, which for the floats of the model (at most one
\* decimal digit) is the whole part, a point and one digit.
PyStr(cell) ==
    CASE cell.t = "str" -> cell.s
      [] cell.t = "null" -> <<"n", "a", "n">>
      [] cell.t = "int" -> IntStr(cell.v.n)
      [] cell.t = "float" ->
            LET tenths == (Abs(cell.v.n) * 10) \div cell.v.d
            IN  (IF cell.v.n < 0 THEN <<"-">> ELSE <<>>)
                \o NatStr(tenths \div 10) \o <<".">> \o NatStr(tenths % 10)


\* float(value) on a str: surrounding whitespace is dropped, then an optional
\* sign, then digits with at most one decimal point (at least one digit).
\* Anything else raises ValueError (ok = FALSE).  Exponents, underscores and
\* the spellings inf / nan / infinity never occur in the model's inputs.
\* the digits u (with the decimal point at position p, Len(u) + 1 when there
\* is none) read as a number
Magnitude(u, p) ==
    Rat(DigitsVal(SubSeq(u, 1, p - 1) \o SubSeq(u, p + 1, Len(u))), Pow10(Len(u) - p))

ParseUnsigned(u, negative) ==
    LET dots == {i \in 1..Len(u) : u[i] = "."}
    IN  IF /\ \A i \in 1..Len(u) : IsDigit(u[i]) \/ u[i] = "."
           /\ Cardinality(dots) <= 1
           /\ Len(u) - Cardinality(dots) >= 1
        THEN [ok |-> TRUE,
              v |-> IF dots = {}
                    THEN RMul(RInt(IF negative THEN -1 ELSE 1), Rat(DigitsVal(u), 1))
                    ELSE RMul(RInt(IF negative THEN -1 ELSE 1),
                              Magnitude(u, CHOOSE i \in dots : TRUE))]
        ELSE [ok |-> FALSE, v |-> RZero]

ParseStripped(t) ==
    IF t # <<>> /\ Head(t) \in {"-", "+"}
    THEN ParseUnsigned(Tail(t), Head(t) = "-")
    ELSE ParseUnsigned(t, FALSE)

ParseFloat(s) == ParseStripped(StrStrip(s))

\* try: return float(value) / except ValueError: the default
ParsedOr(p, default) == IF p.ok THEN p.v ELSE default

(***************************************************************************)
(* Python values shared by the operations                                  *)
(***************************************************************************)
None == [t |-> "none"]
Raise(e) == [exc |-> e]
Raised(r) == "exc" \in DOMAIN r
Return(v) == [val |-> v]
\* an exception whose message names a subject (f"... {analyzer_type}")
RaiseNaming(e, subject) == [exc |-> e, names |-> subject]

\* dict: insertion-ordered <<key, value>> pairs
DictKeys(dct) == {dct[i][1] : i \in 1..Len(dct)}
DictHas(dct, k) == \E i \in 1..Len(dct) : dct[i][1] = k
DictGet(dct, k, default) ==
    IF DictHas(dct, k)
    THEN dct[CHOOSE i \in 1..Len(dct) : dct[i][1] = k][2]
    ELSE default
\* dct[k] = v: an existing key keeps its position, a new key goes last
DictSet(dct, k, v) ==
    IF DictHas(dct, k)
    THEN [i \in 1..Len(dct) |-> IF dct[i][1] = k THEN <<k, v>> ELSE dct[i]]
    ELSE Append(dct, <<k, v>>)

RECURSIVE SumValues(_)
\* sum(d.values()): sum() starts from the int 0
SumValues(dct) ==
    IF dct = <<>> THEN RZero
    ELSE RAdd(SumValues(SubSeq(dct, 1, Len(dct) - 1)), dct[Len(dct)][2])

\* a mutant of row.get: an absent column reads as the number 1
RowGet_one(row, col, default) == IF col \in DOMAIN row THEN row[col] ELSE IntCell(1)

\* row.get(col, default): the cell of a column of the frame, else the default
RowGet(row, col, default) == IF col \in DOMAIN row THEN row[col] ELSE default

(***************************************************************************)
(* aggregator.py: WorkingAggregator                                        *)
(***************************************************************************)
S_NILL == <<"N", "I", "L", "L">>
S_NIL == <<"N", "I", "L">>
S_0 == <<"0">>
S_EMPTY == <<>>
S_NULL == <<"N", "U", "L", "L">>
S_null == <<"n", "u", "l", "l">>
S_NA == <<"N", "A">>
S_na == <<"n", "a">>

VALID_CATEGORIES == <<"CITY", "Class", "Region", "Type">>
NULL_VALUES == {S_NILL, S_EMPTY, S_0, S_NIL, S_null, S_NULL, S_na, S_NA}

\* a mutant of standardize_brand: the token test is made before the value is
\* trimmed and upper-cased
standardize_brand_raw_test(brand) ==
    IF IsNull(brand) THEN None
    ELSE IF PyStr(brand) \in NULL_VALUES THEN None
    ELSE StrCell(StrUpper(StrStrip(PyStr(brand))))

\* `if brand_str in NULL_VALUES: return None` / `return brand_str`
UnlessNull(brand_str, null_values) ==
    IF brand_str \in null_values THEN None ELSE StrCell(brand_str)

\* a mutant of standardize_brand: the text is not stripped
standardize_brand_unstripped(brand) ==
    IF IsNull(brand) THEN None
    ELSE UnlessNull(StrUpper(PyStr(brand)), NULL_VALUES)

standardize_brand(brand) ==
    IF IsNull(brand) THEN None
    ELSE UnlessNull(StrUpper(StrStrip(PyStr(brand))), NULL_VALUES)

clean_numeric(value) ==
    CASE IsNull(value) -> RZero
      [] value.t \in {"int", "float"} -> value.v
      [] value.t = "str" ->
            ParsedOr(ParseFloat(value.s), RZero)

\* `if brand:` a str is truthy when it is not empty, None is falsy
Truthy(brand) == brand.t = "str" /\ brand.s # <<>>

\* zip(brand_cols, workload_cols) stops at the shorter list
ZipLen(brand_cols, workload_cols) ==
    IF Len(brand_cols) <= Len(workload_cols) THEN Len(brand_cols) ELSE Len(workload_cols)

\* a mutant of the loop body: the pair is put in front of the earlier ones
AppendWorkload_in_front(before, brand, workload) ==
    IF Truthy(brand) /\ RGt(workload, RZero)
    THEN <<(<<brand.s, workload>>)>> \o before
    ELSE before

\* a mutant of the loop body: a brand an earlier slot named is not appended again
AppendWorkload_once_per_brand(before, brand, workload) ==
    IF Truthy(brand) /\ RGt(workload, RZero)
       /\ \A i \in 1..Len(before) : before[i][1] # brand.s
    THEN Append(before, <<brand.s, workload>>)
    ELSE before

\* `if brand and workload > 0:` brand_workloads.append((brand, workload))
AppendWorkload(before, brand, workload) ==
    IF Truthy(brand) /\ RGt(workload, RZero)
    THEN Append(before, <<brand.s, workload>>)
    ELSE before

RECURSIVE brand_workloads_loop(_, _, _, _)
\* the loop of allocate_row_brands after k slots: <<brand, workload>> pairs
brand_workloads_loop(row, brand_cols, workload_cols, k) ==
    IF k = 0 THEN <<>>
    ELSE AppendWorkload(brand_workloads_loop(row, brand_cols, workload_cols, k - 1),
                        standardize_brand(RowGet(row, brand_cols[k], NaN)),
                        clean_numeric(RowGet(row, workload_cols[k], IntCell(0))))

\* a mutant of the split: `total` is divided evenly over the pairs
Proportional_even(brand_workloads, daily_sum, total) ==
    [i \in 1..Len(brand_workloads) |->
        <<brand_workloads[i][1], RDiv(total, RInt(Len(brand_workloads)))>>]

\* the proportional split of `total` over the <<brand, workload>> pairs
Proportional(brand_workloads, daily_sum, total) ==
    [i \in 1..Len(brand_workloads) |->
        <<brand_workloads[i][1], RMul(RDiv(brand_workloads[i][2], daily_sum), total)>>]

\* a mutant of the allocation: the proportion is taken of days_per_year alone
\* instead of daily_sum * days_per_year
allocate_brand_workloads_unscaled(brand_workloads, days_per_year) ==
    IF RLe(SumValues(brand_workloads), RZero) THEN <<>>
    ELSE Proportional(brand_workloads, SumValues(brand_workloads), RInt(days_per_year))

\* allocate_row_brands after its loop
allocate_brand_workloads(brand_workloads, days_per_year) ==
    IF RLe(SumValues(brand_workloads), RZero) THEN <<>>
    ELSE Proportional(brand_workloads, SumValues(brand_workloads),
                      RMul(SumValues(brand_workloads), RInt(days_per_year)))

allocate_row_brands(row, brand_cols, workload_cols, days_per_year) ==
    allocate_brand_workloads(
        brand_workloads_loop(row, brand_cols, workload_cols,
                             ZipLen(brand_cols, workload_cols)),
        days_per_year)

RECURSIVE InsertDescending_unstable(_, _)
\* a mutant of the sort step: the item goes before the items of equal value
InsertDescending_unstable(sorted, item) ==
    IF sorted = <<>> THEN <<item>>
    ELSE IF RLe(Head(sorted)[2], item[2])
         THEN <<item>> \o sorted
         ELSE <<Head(sorted)>> \o InsertDescending_unstable(Tail(sorted), item)

RECURSIVE InsertDescending(_, _)
\* one step of a stable descending sort: the item goes after every item whose
\* value is not smaller, so equal values keep their input order
InsertDescending(sorted, item) ==
    IF sorted = <<>> THEN <<item>>
    ELSE IF RLt(Head(sorted)[2], item[2])
         THEN <<item>> \o sorted
         ELSE <<Head(sorted)>> \o InsertDescending(Tail(sorted), item)

RECURSIVE SortedDescending(_)
\* sorted(items, key=lambda x: x[1], reverse=True)
SortedDescending(items) ==
    IF items = <<>> THEN <<>>
    ELSE InsertDescending(SortedDescending(SubSeq(items, 1, Len(items) - 1)),
                          items[Len(items)])

\* a mutant of calculate_market_share: the empty-market test is dropped and each
\* share is taken of the largest total instead of the grand total
calculate_market_share_of_largest(brand_totals) ==
    LET sorted_brands == SortedDescending(brand_totals)
    IN  IF sorted_brands = <<>> \/ sorted_brands[1][2] = RZero THEN <<>>
        ELSE [i \in 1..Len(sorted_brands) |->
                <<sorted_brands[i][1],
                  RMul(RDiv(sorted_brands[i][2], sorted_brands[1][2]), RInt(100))>>]

calculate_market_share(brand_totals) ==
    LET total == SumValues(brand_totals)
        sorted_brands == SortedDescending(brand_totals)
    IN  IF RLe(total, RZero) THEN <<>>
        ELSE [i \in 1..Len(sorted_brands) |->
                <<sorted_brands[i][1],
                  RMul(RDiv(sorted_brands[i][2], total), RInt(100))>>]

RECURSIVE AddAllocations_overwrite(_, _)
\* a mutant of the fold: brand_totals[brand] = allocated, nothing is added up
AddAllocations_overwrite(brand_totals, allocations) ==
    IF allocations = <<>> THEN brand_totals
    ELSE AddAllocations_overwrite(
             DictSet(brand_totals, Head(allocations)[1], Head(allocations)[2]),
             Tail(allocations))

RECURSIVE AddAllocations(_, _)
\* for brand, allocated in allocations: brand_totals[brand] = get(brand, 0) + allocated
AddAllocations(brand_totals, allocations) ==
    IF allocations = <<>> THEN brand_totals
    ELSE LET a == Head(allocations)
         IN  AddAllocations(
                 DictSet(brand_totals, a[1], RAdd(DictGet(brand_totals, a[1], RZero), a[2])),
                 Tail(allocations))

\* a mutant of the loop: the totals are those of the last record alone
brand_totals_loop_last_record(df, brand_cols, workload_cols, days_per_year, k) ==
    IF k = 0 THEN <<>>
    ELSE AddAllocations(<<>>, allocate_row_brands(df.rows[k], brand_cols, workload_cols,
                                                  days_per_year))

RECURSIVE brand_totals_loop(_, _, _, _, _)
\* the loop of calculate_brand_totals after the first k rows
brand_totals_loop(df, brand_cols, workload_cols, days_per_year, k) ==
    IF k = 0 THEN <<>>
    ELSE AddAllocations(
             brand_totals_loop(df, brand_cols, workload_cols, days_per_year, k - 1),
             allocate_row_brands(df.rows[k], brand_cols, workload_cols, days_per_year))

calculate_brand_totals(df, brand_cols, workload_cols, days_per_year) ==
    brand_totals_loop(df, brand_cols, workload_cols, days_per_year, Len(df.rows))

\* the entries one record appends to `rows`
PivotEntries(group_value, allocations) ==
    [i \in 1..Len(allocations) |->
        [group |-> group_value,
         brand |-> allocations[i][1],
         allocated |-> allocations[i][2]]]

RECURSIVE pivot_rows_loop(_, _, _, _, _, _)
\* the `rows` list of create_pivot_table after the first k rows of the frame:
\* one [group, brand, allocated] entry per allocation
pivot_rows_loop(df, brand_cols, workload_cols, days_per_year, groupby_col, k) ==
    IF k = 0 THEN <<>>
    ELSE pivot_rows_loop(df, brand_cols, workload_cols, days_per_year, groupby_col, k - 1)
         \o PivotEntries(
                StrStrip(PyStr(RowGet(df.rows[k], groupby_col,
                                      StrCell(<<"U","N","K","N","O","W","N">>)))),
                allocate_row_brands(df.rows[k], brand_cols, workload_cols, days_per_year))

RECURSIVE SumAllocated(_, _, _)
\* groupby([groupby_col, "BRAND"])["ALLOCATED_YEARLY"].sum() for one pair
SumAllocated(rows, g, b) ==
    IF rows = <<>> THEN RZero
    ELSE LET r == rows[Len(rows)]
             rest == SumAllocated(SubSeq(rows, 1, Len(rows) - 1), g, b)
         IN  IF r.group = g /\ r.brand = b THEN RAdd(rest, r.allocated) ELSE rest

\* the frame pivot(...).fillna(0).reset_index(): one row per group value, one
\* column per brand, 0 where the pair has no allocation
PivotFrame(rows) ==
    LET groups == {rows[i].group : i \in 1..Len(rows)}
        brands == {rows[i].brand : i \in 1..Len(rows)}
        observed == {<<rows[i].group, rows[i].brand>> : i \in 1..Len(rows)}
    IN  [t |-> "frame",
         index |-> groups,
         brands |-> brands,
         cell |-> [gb \in groups \X brands |->
                     IF gb \in observed THEN SumAllocated(rows, gb[1], gb[2]) ELSE RZero]]

RECURSIVE LastAllocated(_, _, _)
LastAllocated(rows, g, b) ==
    IF rows = <<>> THEN RZero
    ELSE LET r == rows[Len(rows)]
         IN  IF r.group = g /\ r.brand = b THEN r.allocated
             ELSE LastAllocated(SubSeq(rows, 1, Len(rows) - 1), g, b)

\* a mutant of the pivot: the entries are pivoted without the
\* groupby(...).sum(), so a cell keeps the last allocation of its pair
PivotOrNone_unsummed(rows) ==
    IF rows = <<>> THEN None
    ELSE [PivotFrame(rows) EXCEPT !.cell =
             [gb \in DOMAIN PivotFrame(rows).cell |-> LastAllocated(rows, gb[1], gb[2])]]

\* a mutant of the pivot: no fillna(0), a pair without allocation stays NaN
PivotOrNone_unfilled(rows) ==
    IF rows = <<>> THEN None
    ELSE [PivotFrame(rows) EXCEPT !.cell =
             [gb \in DOMAIN PivotFrame(rows).cell |->
                 IF \E i \in 1..Len(rows) : rows[i].group = gb[1] /\ rows[i].brand = gb[2]
                 THEN PivotFrame(rows).cell[gb] ELSE NaN]]

\* `if not rows: return None`, else the pivoted frame
PivotOrNone(rows) == IF rows = <<>> THEN None ELSE PivotFrame(rows)

\* a mutant of create_pivot_table: only the first record is read
create_pivot_table_first_record(df, brand_cols, workload_cols, days_per_year, groupby_col) ==
    IF groupby_col \notin df.columns THEN None
    ELSE PivotOrNone(pivot_rows_loop(df, brand_cols, workload_cols, days_per_year,
                                     groupby_col, IF Len(df.rows) = 0 THEN 0 ELSE 1))

create_pivot_table(df, brand_cols, workload_cols, days_per_year, groupby_col) ==
    IF groupby_col \notin df.columns THEN None
    ELSE PivotOrNone(pivot_rows_loop(df, brand_cols, workload_cols, days_per_year,
                                     groupby_col, Len(df.rows)))

\* df.empty: no rows or no columns
DfEmpty(df) == Len(df.rows) = 0 \/ df.columns = {}

validate_columns(df, required_cols) ==
    LET missing_cols == {c \in required_cols : c \notin df.columns}
    IN  IF missing_cols # {} THEN Raise("ValueError") ELSE Return(TRUE)

required_base_cols == {"Customer Name", "CITY", "Class", "Region", "Type"}

\* a mutant of validate_data: the empty-dataset test is missing
validate_data_no_empty_test(df) == validate_columns(df, required_base_cols)

validate_data(df) ==
    IF DfEmpty(df) THEN Raise("ValueError")
    ELSE validate_columns(df, required_base_cols)

\* df[col] values that are not null, as nunique() and value_counts() see them
ColumnValues(df, col) ==
    {df.rows[i][col] : i \in {j \in 1..Len(df.rows) : ~IsNull(df.rows[j][col])}}

\* df[col].nunique()
NUnique(df, col) == Cardinality(ColumnValues(df, col))

\* df[col].value_counts().to_dict()
ValueCounts(df, col) ==
    [v \in ColumnValues(df, col) |->
        Cardinality({i \in 1..Len(df.rows) : df.rows[i][col] = v})]

RECURSIVE MaxItem(_)
\* max(items, key=lambda x: x[1]) of a non-empty list: the first of the largest
MaxItem(items) ==
    IF Len(items) = 1 THEN items[1]
    ELSE LET best == MaxItem(SubSeq(items, 1, Len(items) - 1))
         IN  IF RGt(items[Len(items)][2], best[2]) THEN items[Len(items)] ELSE best

\* The dict display is evaluated entry by entry: df["Customer Name"] raises
\* KeyError for an absent column, max() of an empty market_share raises
\* ValueError, then df["CITY"], df["Class"], df["Region"].
calculate_summary_stats(df, brand_totals, market_share) ==
    IF "Customer Name" \notin df.columns THEN Raise("KeyError")
    ELSE IF market_share = <<>> THEN Raise("ValueError")
    ELSE IF {"CITY", "Class", "Region"} \ df.columns # {} THEN Raise("KeyError")
    ELSE Return([total_sites |-> NUnique(df, "Customer Name"),
                 total_volume |-> SumValues(brand_totals),
                 top_brand |-> MaxItem(market_share)[1],
                 unique_cities |-> NUnique(df, "CITY"),
                 unique_classes |-> NUnique(df, "Class"),
                 class_distribution |-> ValueCounts(df, "Class"),
                 region_distribution |-> ValueCounts(df, "Region")])

\* `not cols`: an absent entry defaults to [], and [] is falsy
HasKey(doc, k) == k \in DOMAIN doc

\* a mutant of the result: brand_values repeats brand_totals, no price applied
AnalysisResult_unpriced(brand_totals, market_share, test_price, pivots, summary_stats) ==
    IF Raised(summary_stats) THEN summary_stats
    ELSE Return([brand_totals |-> brand_totals,
                 market_share |-> market_share,
                 brand_values |-> brand_totals,
                 city_pivot |-> pivots["CITY"],
                 class_pivot |-> pivots["Class"],
                 region_pivot |-> pivots["Region"],
                 type_pivot |-> pivots["Type"],
                 summary_stats |-> summary_stats.val])

\* AnalysisResult(...), unless calculate_summary_stats raised
AnalysisResult(brand_totals, market_share, test_price, pivots, summary_stats) ==
    IF Raised(summary_stats) THEN summary_stats
    ELSE Return([brand_totals |-> brand_totals,
                 market_share |-> market_share,
                 brand_values |->
                    [i \in 1..Len(brand_totals) |->
                        <<brand_totals[i][1], RMul(brand_totals[i][2], test_price)>>],
                 city_pivot |-> pivots["CITY"],
                 class_pivot |-> pivots["Class"],
                 region_pivot |-> pivots["Region"],
                 type_pivot |-> pivots["Type"],
                 summary_stats |-> summary_stats.val])

\* analyze_market_data from the computed brand_totals on
analyze_totals(df, brand_totals, test_price, pivots) ==
    AnalysisResult(brand_totals, calculate_market_share(brand_totals), test_price, pivots,
                   calculate_summary_stats(df, brand_totals,
                                           calculate_market_share(brand_totals)))

\* analyze_market_data once the column configuration has been read
analyze_columns(df, brand_cols, workload_cols, days_per_year, test_price) ==
    analyze_totals(
        df,
        calculate_brand_totals(df, brand_cols, workload_cols, days_per_year),
        test_price,
        [category \in {VALID_CATEGORIES[i] : i \in 1..Len(VALID_CATEGORIES)} |->
            create_pivot_table(df, brand_cols, workload_cols, days_per_year, category)])

\* the body of analyze_market_data after validate_data succeeded; every
\* exception is logged and re-raised by the except clause
analyze_validated(df, config, analyzer_type) ==
    IF ~HasKey(config, "analyzers") THEN Raise("KeyError")
    ELSE IF ~HasKey(config.analyzers, analyzer_type)
         THEN RaiseNaming("ValueError", analyzer_type)
    ELSE LET analyzer_config == config.analyzers[analyzer_type]
             brand_cols == IF HasKey(analyzer_config, "brand_columns")
                           THEN analyzer_config.brand_columns ELSE <<>>
             workload_cols == IF HasKey(analyzer_config, "workload_columns")
                              THEN analyzer_config.workload_columns ELSE <<>>
         IN  IF brand_cols = <<>> \/ workload_cols = <<>>
             THEN RaiseNaming("ValueError", analyzer_type)
             ELSE IF ~HasKey(config, "analysis_settings") THEN Raise("KeyError")
             ELSE IF ~HasKey(config.analysis_settings, "days_per_year") THEN Raise("KeyError")
             ELSE analyze_columns(df, brand_cols, workload_cols,
                                  config.analysis_settings.days_per_year,
                                  IF HasKey(analyzer_config, "test_price")
                                  THEN analyzer_config.test_price ELSE RZero)

\* a mutant of analyze_market_data: validate_data is not called
analyze_market_data_unvalidated(df, config, analyzer_type) ==
    analyze_validated(df, config, analyzer_type)

analyze_market_data(df, config, analyzer_type) ==
    IF Raised(validate_data(df)) THEN validate_data(df)
    ELSE analyze_validated(df, config, analyzer_type)

(***************************************************************************)
(* LastWorkings/market_share_working - V1_2.py: the yearly-column mode     *)
(***************************************************************************)
RECURSIVE WithoutCommas(_)
\* str.replace(",", "")
WithoutCommas(s) ==
    IF s = <<>> THEN <<>>
    ELSE (IF Head(s) = "," THEN <<>> ELSE <<Head(s)>>) \o WithoutCommas(Tail(s))

\* One cell of a column converted by parse_numeric_columns: astype(str), strip
\* (workload columns only), commas removed, "nan" replaced, then
\* pd.to_numeric(errors="coerce"): a float, or NaN when the text is no number.
\* Series.replace("nan", None) leaves None or pads from the row above,
\* depending on the pandas release; both give NaN on the first row of a frame,
\* and the model converts one-row frames only.
Coerced(p) == IF p.ok THEN FloatCell(p.v) ELSE NaN

to_numeric_cell(cell, strip) ==
    Coerced(ParseFloat(WithoutCommas(IF strip THEN StrStrip(PyStr(cell)) ELSE PyStr(cell))))

parse_numeric_columns(df, workload_cols, yearly_col) ==
    [df EXCEPT !.rows =
        [i \in 1..Len(df.rows) |->
            [c \in DOMAIN df.rows[i] |->
                IF c = yearly_col THEN to_numeric_cell(df.rows[i][c], FALSE)
                ELSE IF \E k \in 1..Len(workload_cols) : workload_cols[k] = c
                     THEN to_numeric_cell(df.rows[i][c], TRUE)
                     ELSE df.rows[i][c]]]]

V1_2_NULL_VALUES == {S_NILL, S_EMPTY, S_0}

standardize_brand_V1_2(brand) ==
    IF IsNull(brand) THEN None
    ELSE UnlessNull(StrUpper(StrStrip(PyStr(brand))), V1_2_NULL_VALUES)

\* `x or 0` then `> 0` on a converted cell: NaN is truthy and NaN > 0 is False
PositiveNumber(cell) == ~IsNull(cell) /\ RGt(cell.v, RZero)

\* `if b and w > 0:` daily_workloads.append((b, w))
AppendDaily(before, brand, w) ==
    IF Truthy(brand) /\ PositiveNumber(w) THEN Append(before, <<brand.s, w.v>>) ELSE before

RECURSIVE daily_workloads_loop(_, _, _, _)
daily_workloads_loop(row, brand_cols, workload_cols, k) ==
    IF k = 0 THEN <<>>
    ELSE AppendDaily(daily_workloads_loop(row, brand_cols, workload_cols, k - 1),
                     standardize_brand_V1_2(RowGet(row, brand_cols[k], NaN)),
                     RowGet(row, workload_cols[k], IntCell(0)))

\* allocate_row_brands of V1_2 after its loop
allocate_daily_workloads(daily_workloads, row_yearly) ==
    IF RGt(SumValues(daily_workloads), RZero) /\ PositiveNumber(row_yearly)
    THEN Proportional(daily_workloads, SumValues(daily_workloads), row_yearly.v)
    ELSE <<>>

allocate_row_brands_V1_2(row, brand_cols, workload_cols, yearly_col) ==
    allocate_daily_workloads(
        daily_workloads_loop(row, brand_cols, workload_cols,
                             ZipLen(brand_cols, workload_cols)),
        RowGet(row, yearly_col, IntCell(0)))

(***************************************************************************)
(* LastWorkings/market_share_working - V1_0.py: the plain workload sum     *)
(***************************************************************************)
\* str(brand).strip().upper(), None for a null cell; no sentinel is dropped
standardize_brand_V1_0(brand) ==
    IF IsNull(brand) THEN None ELSE StrCell(StrUpper(StrStrip(PyStr(brand))))

\* try: float(workload) / except ValueError: 0.0, on a cell that is not null
workload_val_V1_0(workload) ==
    IF workload.t = "str" THEN ParsedOr(ParseFloat(workload.s), RZero) ELSE workload.v

\* the body of the inner loop of aggregate_brand_workloads
AddWorkload_V1_0(brand_workloads, brand, workload) ==
    IF ~IsNull(brand) /\ ~IsNull(workload) /\ RGt(workload_val_V1_0(workload), RZero)
    THEN DictSet(brand_workloads, standardize_brand_V1_0(brand).s,
                 RAdd(DictGet(brand_workloads, standardize_brand_V1_0(brand).s, RZero),
                      workload_val_V1_0(workload)))
    ELSE brand_workloads

RECURSIVE row_workloads_V1_0(_, _, _, _, _)
\* brand_workloads after the first k slots of a row
row_workloads_V1_0(brand_workloads, row, brand_cols, workload_cols, k) ==
    IF k = 0 THEN brand_workloads
    ELSE AddWorkload_V1_0(
             row_workloads_V1_0(brand_workloads, row, brand_cols, workload_cols, k - 1),
             RowGet(row, brand_cols[k], NaN),
             RowGet(row, workload_cols[k], IntCell(0)))

RECURSIVE brand_workloads_loop_V1_0(_, _, _, _)
\* brand_workloads after the first k rows
brand_workloads_loop_V1_0(data, brand_cols, workload_cols, k) ==
    IF k = 0 THEN <<>>
    ELSE row_workloads_V1_0(
             brand_workloads_loop_V1_0(data, brand_cols, workload_cols, k - 1),
             data.rows[k], brand_cols, workload_cols, ZipLen(brand_cols, workload_cols))

aggregate_brand_workloads(data, brand_cols, workload_cols) ==
    brand_workloads_loop_V1_0(data, brand_cols, workload_cols, Len(data.rows))

(***************************************************************************)
(* config.py: ConfigManager.  A JSON document is a function from its keys  *)
(* to values; days_per_year keeps the JSON type of its value.              *)
(***************************************************************************)
Departments == {"IA", "CBC", "CHEM"}
JsonInt(k) == [t |-> "int", v |-> k]

DEFAULT_CONFIG ==
    [days_per_year |-> JsonInt(330),
     headers |->
        [IA |-> [brand_cols |-> <<"IA Brand 1", "IA Brand 2", "IA Brand 3">>,
                 workload_cols |-> <<"IA Workload - Brand 1", "IA Workload - Brand 2",
                                     "IA Workload - Brand 3">>],
         CBC |-> [brand_cols |-> <<"CBC Brand 1", "CBC Brand 2", "CBC Brand 3", "CBC Brand 4">>,
                  workload_cols |-> <<"CBC Workload - Brand 1", "CBC Workload - Brand 2",
                                      "CBC Workload - Brand 3", "CBC Workload - Brand 4">>],
         CHEM |-> [brand_cols |-> <<"CHEM Brand 1", "CHEM Brand 2", "CHEM Brand 3",
                                    "CHEM Brand 4">>,
                   workload_cols |-> <<"CHEM Workload - Brand 1", "CHEM Workload - Brand 2",
                                       "CHEM Workload - Brand 3", "CHEM Workload - Brand 4">>]],
     cost_per_test |-> [IA |-> 100, CBC |-> 80, CHEM |-> 120]]

\* the state of the file at config_path
NoFile == [kind |-> "absent"]
UnreadableFile == [kind |-> "unreadable"]
InvalidJsonFile == [kind |-> "invalid_json"]
JsonFile(value) == [kind |-> "json", value |-> value]
JsonList == [t |-> "list"]
JsonObject(doc) == [t |-> "object", doc |-> doc]

\* isinstance(x, int): a JSON integer, and also true / false (bool is an int)
IsInstanceInt(x) == x.t \in {"int", "bool"}

MissingCostDefault == 100

\* the try block of _validate_config: the validated document, or the exception
\* that leaves the block (config_data.get on a JSON value that is no object is
\* an AttributeError)
validate_config_try(config_data) ==
    IF config_data.t # "object" THEN Raise("AttributeError")
    ELSE LET doc == config_data.doc
             headers == IF HasKey(doc, "headers") THEN doc.headers ELSE << >>
             cost_dict == IF HasKey(doc, "cost_per_test") THEN doc.cost_per_test ELSE << >>
             filled == [dept \in DOMAIN cost_dict \cup Departments |->
                          IF dept \in DOMAIN cost_dict THEN cost_dict[dept]
                          ELSE MissingCostDefault]
         IN  IF ~HasKey(doc, "days_per_year") \/ ~IsInstanceInt(doc.days_per_year)
             THEN Raise("ConfigurationError")
             ELSE IF \E dept \in Departments :
                        \/ dept \notin DOMAIN headers
                        \/ ~({"brand_cols", "workload_cols"} \subseteq DOMAIN headers[dept])
                        \/ Len(headers[dept].brand_cols) # Len(headers[dept].workload_cols)
                  THEN Raise("ConfigurationError")
                  ELSE Return([k \in DOMAIN doc \cup {"cost_per_test"} |->
                                  IF k = "cost_per_test" THEN filled ELSE doc[k]])

\* a mutant of _validate_config: the handler hands back the rejected document
ConfigManager_validate_config_keep(config_data) ==
    LET r == validate_config_try(config_data)
    IN  IF Raised(r) THEN config_data ELSE r.val

\* ConfigManager._validate_config: every exception is logged and answered with
\* DEFAULT_CONFIG
ConfigManager_validate_config(config_data) ==
    LET r == validate_config_try(config_data)
    IN  IF Raised(r) THEN DEFAULT_CONFIG ELSE r.val

\* ConfigManager._load_config: open() of an unreadable file raises OSError and
\* json.load of malformed text JSONDecodeError; both handlers return
\* DEFAULT_CONFIG
ConfigManager_load_config(file) ==
    CASE file.kind = "absent" -> DEFAULT_CONFIG
      [] file.kind = "unreadable" -> DEFAULT_CONFIG
      [] file.kind = "invalid_json" -> DEFAULT_CONFIG
      [] file.kind = "json" -> ConfigManager_validate_config(file.value)

(***************************************************************************)
(* State: the data frame an analysis is given, the last call made on it    *)
(* with its arguments, and what the call returned or raised; the           *)
(* configuration file and the configuration a ConfigManager holds          *)
(* (ConfigManager._config, None before construction); the progress of a    *)
(* consolidated run of the main window (process_consolidated); the         *)
(* dictionaries a ConfigManager and its caller share by reference.         *)
(***************************************************************************)
VARIABLES df, call, ret, config_file, held, batch, heap

vars == <<df, call, ret, config_file, held, batch, heap>>

\* no consolidated run has been started
NoBatch == [pc |-> "none"]

\* no dictionary of a ConfigManager is followed
NoHeap == [config |-> "none"]

BRAND_COLS == <<"IA Brand 1", "IA Brand 2">>
WORKLOAD_COLS == <<"IA Workload - Brand 1", "IA Workload - Brand 2">>
YEARLY_COL == "IA YEARLY SAMPLES"

\* days_per_year values a caller passes: validation only asks for an int
DaysPerYear == {-1, 0, 1, 330}

\* days_per_year values of the per-record calls
RowDaysPerYear == DaysPerYear \cup {14}

Str_ab == <<" ", "a", "b">>
Str_AB == <<"A", "B">>
Str_C == <<"C">>
Str_nill == <<" ", "n", "i", "l", "l", " ">>

(***************************************************************************)
(* One-record frames with every combination of raw brand and workload      *)
(* cells: the inputs of the per-record allocation.                         *)
(***************************************************************************)
RawBrandCells ==
    {NaN, StrCell(S_EMPTY), StrCell(<<" ">>), StrCell(S_NILL), StrCell(Str_nill),
     StrCell(S_0), IntCell(0), FloatCell(RZero),
     StrCell(Str_ab), StrCell(Str_AB), StrCell(Str_C)}

RawWorkloadCells ==
    {NaN, IntCell(0), IntCell(-5), IntCell(10), IntCell(15), FloatCell(Rat(5, 2)),
     StrCell(<<"a", "b", "c">>), StrCell(<<"1", ",", "0", "0", "0">>),
     StrCell(<<" ", "2", "0", " ">>)}

RawYearlyCells ==
    {NaN, IntCell(0), IntCell(-50), IntCell(350), StrCell(<<"1", ",", "0", "0", "0">>)}

RowColumns == {BRAND_COLS[1], BRAND_COLS[2], WORKLOAD_COLS[1], WORKLOAD_COLS[2], YEARLY_COL}

OneRowFrames ==
    {[columns |-> RowColumns,
      rows |-> <<[c \in RowColumns |->
                    CASE c = BRAND_COLS[1] -> b1
                      [] c = BRAND_COLS[2] -> b2
                      [] c = WORKLOAD_COLS[1] -> w1
                      [] c = WORKLOAD_COLS[2] -> w2
                      [] c = YEARLY_COL -> y]>>] :
        b1 \in RawBrandCells, b2 \in RawBrandCells,
        w1 \in RawWorkloadCells, w2 \in RawWorkloadCells, y \in {NaN}}

NoCall == [op |-> "none"]

InitRow ==
    /\ df \in OneRowFrames
    /\ call = NoCall
    /\ ret = None
    /\ config_file = NoFile
    /\ held = None
    /\ batch = NoBatch
    /\ heap = NoHeap

\* WorkingAggregator.allocate_row_brands(row, brand_cols, workload_cols, days_per_year)
Call_allocate_row_brands(days_per_year) ==
    /\ call = NoCall
    /\ call' = [op |-> "allocate_row_brands", days_per_year |-> days_per_year]
    /\ ret' = Return(allocate_row_brands(df.rows[1], BRAND_COLS, WORKLOAD_COLS, days_per_year))
    /\ UNCHANGED <<df, config_file, held, batch, heap>>

\* V1_2: parse_numeric_columns(df, ...) then allocate_row_brands(row, ..., yearly_col),
\* the yearly cell being the caller's
Call_allocate_row_brands_V1_2(yearly) ==
    /\ call = NoCall
    /\ \E parsed \in {parse_numeric_columns([df EXCEPT !.rows[1][YEARLY_COL] = yearly],
                                             WORKLOAD_COLS, YEARLY_COL)} :
          /\ call' = [op |-> "allocate_row_brands_V1_2", yearly |-> yearly,
                      parsed |-> parsed]
          /\ ret' = Return(allocate_row_brands_V1_2(parsed.rows[1], BRAND_COLS,
                                                    WORKLOAD_COLS, YEARLY_COL))
    /\ UNCHANGED <<df, config_file, held, batch, heap>>

\* the record without one of its columns
RowWithout(row, column) == [c \in DOMAIN row \ {column} |-> row[c]]

\* allocate_row_brands on a frame that lacks a configured column
Call_allocate_row_brands_missing_column(column, days_per_year) ==
    /\ call = NoCall
    /\ call' = [op |-> "allocate_row_brands_missing_column", column |-> column,
                days_per_year |-> days_per_year]
    /\ ret' = Return(allocate_row_brands(RowWithout(df.rows[1], column), BRAND_COLS,
                                         WORKLOAD_COLS, days_per_year))
    /\ UNCHANGED <<df, config_file, held, batch, heap>>

NextRow ==
    \/ \E days_per_year \in RowDaysPerYear : Call_allocate_row_brands(days_per_year)
    \/ \E column \in RowColumns \ {YEARLY_COL} :
            Call_allocate_row_brands_missing_column(column, 330)
    \/ \E yearly \in RawYearlyCells : Call_allocate_row_brands_V1_2(yearly)

SpecRow == InitRow /\ [][NextRow]_vars

(***************************************************************************)
(* The inputs of the frame-level operations: frames of up to MaxRows       *)
(* records drawn from a pool of records, with every column; the same with  *)
(* one base column absent, of up to MaxRowsAbsent records; and the frame   *)
(* pd.DataFrame() of no rows and no columns.                               *)
(***************************************************************************)
MaxRows == 2
MaxRowsAbsent == 1

BaseColumns == {"Customer Name", "CITY", "Class", "Region", "Type"}
SlotColumns == {BRAND_COLS[1], BRAND_COLS[2], WORKLOAD_COLS[1], WORKLOAD_COLS[2]}
AllColumns == BaseColumns \cup SlotColumns

\* the site and category cells of a record
Profiles ==
    {[site |-> StrCell(<<"B">>), city |-> StrCell(<<"Y">>), class |-> StrCell(<<"L">>),
      region |-> StrCell(<<"S">>), type |-> StrCell(<<"U">>)],
     [site |-> StrCell(<<"A">>), city |-> StrCell(<<" ", "Y">>), class |-> NaN,
      region |-> StrCell(S_EMPTY), type |-> NaN]}

\* the <<brand cell, workload cell>> of the first and of the second slot
FirstSlots == {<<StrCell(Str_ab), IntCell(10)>>, <<StrCell(Str_nill), IntCell(10)>>}
SecondSlots ==
    {<<StrCell(Str_AB), IntCell(30)>>, <<StrCell(Str_C), IntCell(10)>>,
     <<StrCell(Str_C), StrCell(<<"a", "b", "c">>)>>}

PoolRows ==
    {[c \in AllColumns |->
        CASE c = "Customer Name" -> p.site
          [] c = "CITY" -> p.city
          [] c = "Class" -> p.class
          [] c = "Region" -> p.region
          [] c = "Type" -> p.type
          [] c = BRAND_COLS[1] -> s1[1]
          [] c = WORKLOAD_COLS[1] -> s1[2]
          [] c = BRAND_COLS[2] -> s2[1]
          [] c = WORKLOAD_COLS[2] -> s2[2]] :
        p \in Profiles, s1 \in FirstSlots, s2 \in SecondSlots}

\* the frame of the given rows restricted to the given columns
Frame(rows, columns) ==
    [columns |-> columns,
     rows |-> [i \in 1..Len(rows) |-> [c \in columns |-> rows[i][c]]]]

RowLists(max) == UNION {[1..n -> PoolRows] : n \in 0..max}

Frames ==
    {Frame(rows, AllColumns) : rows \in RowLists(MaxRows)}
    \cup {Frame(rows, AllColumns \ {c}) : rows \in RowLists(MaxRowsAbsent), c \in BaseColumns}
    \cup {Frame(<<>>, {})}

\* the configuration documents passed to analyze_market_data
AnalyzersConfig(days_per_year) ==
    [analyzers |->
        [IA |-> [brand_columns |-> BRAND_COLS,
                 workload_columns |-> WORKLOAD_COLS,
                 test_price |-> RInt(250)]],
     analysis_settings |-> [days_per_year |-> days_per_year]]

\* the entry of one analyzer: complete, without a price, with a column list
\* absent or empty, with lists of different lengths, with a slot whose columns
\* the frame does not have
AnalyzerEntries ==
    {[brand_columns |-> BRAND_COLS, workload_columns |-> WORKLOAD_COLS],
     [workload_columns |-> WORKLOAD_COLS, test_price |-> RInt(250)],
     [brand_columns |-> BRAND_COLS, test_price |-> RInt(250)],
     [brand_columns |-> <<>>, workload_columns |-> WORKLOAD_COLS, test_price |-> RInt(250)],
     [brand_columns |-> BRAND_COLS, workload_columns |-> <<>>, test_price |-> RInt(250)],
     [brand_columns |-> BRAND_COLS, workload_columns |-> <<WORKLOAD_COLS[1]>>,
      test_price |-> RInt(250)],
     [brand_columns |-> <<BRAND_COLS[1]>>, workload_columns |-> WORKLOAD_COLS,
      test_price |-> RInt(250)],
     [brand_columns |-> <<BRAND_COLS[1], "IA Brand 3">>,
      workload_columns |-> <<WORKLOAD_COLS[1], "IA Workload - Brand 3">>,
      test_price |-> RInt(250)]}

EntryConfig(entry) ==
    [analyzers |-> [IA |-> entry], analysis_settings |-> [days_per_year |-> 330]]

\* the documents passed as `config`: the analyzers / analysis_settings shape
\* analyze_market_data reads, and the shape ConfigManager holds
AnalysisConfigs ==
    {AnalyzersConfig(d) : d \in DaysPerYear}
    \cup {EntryConfig(entry) : entry \in AnalyzerEntries}
    \cup {DEFAULT_CONFIG}

AnalyzerTypes == {"IA", "CBC"}

Init ==
    /\ df \in Frames
    /\ call = NoCall
    /\ ret = None
    /\ config_file = NoFile
    /\ held = None
    /\ batch = NoBatch
    /\ heap = NoHeap

Call_validate_columns(required_cols) ==
    /\ call = NoCall
    /\ call' = [op |-> "validate_columns", required_cols |-> required_cols]
    /\ ret' = validate_columns(df, required_cols)
    /\ UNCHANGED <<df, config_file, held, batch, heap>>

Call_validate_data ==
    /\ call = NoCall
    /\ call' = [op |-> "validate_data"]
    /\ ret' = validate_data(df)
    /\ UNCHANGED <<df, config_file, held, batch, heap>>

Call_calculate_brand_totals(days_per_year) ==
    /\ call = NoCall
    /\ call' = [op |-> "calculate_brand_totals", days_per_year |-> days_per_year]
    /\ ret' = Return(calculate_brand_totals(df, BRAND_COLS, WORKLOAD_COLS, days_per_year))
    /\ UNCHANGED <<df, config_file, held, batch, heap>>

\* calculate_market_share on the totals calculate_brand_totals gave
Call_calculate_market_share(days_per_year) ==
    /\ call = NoCall
    /\ \E brand_totals \in {calculate_brand_totals(df, BRAND_COLS, WORKLOAD_COLS,
                                                    days_per_year)} :
          /\ call' = [op |-> "calculate_market_share", days_per_year |-> days_per_year,
                      brand_totals |-> brand_totals]
          /\ ret' = Return(calculate_market_share(brand_totals))
    /\ UNCHANGED <<df, config_file, held, batch, heap>>

Call_create_pivot_table(days_per_year, groupby_col) ==
    /\ call = NoCall
    /\ call' = [op |-> "create_pivot_table", days_per_year |-> days_per_year,
                groupby_col |-> groupby_col]
    /\ ret' = Return(create_pivot_table(df, BRAND_COLS, WORKLOAD_COLS,
                                        days_per_year, groupby_col))
    /\ UNCHANGED <<df, config_file, held, batch, heap>>

\* calculate_summary_stats on the totals and shares of the frame
Call_calculate_summary_stats(days_per_year) ==
    /\ call = NoCall
    /\ \E brand_totals \in {calculate_brand_totals(df, BRAND_COLS, WORKLOAD_COLS,
                                                    days_per_year)} :
          /\ call' = [op |-> "calculate_summary_stats", days_per_year |-> days_per_year,
                      brand_totals |-> brand_totals,
                      market_share |-> calculate_market_share(brand_totals)]
          /\ ret' = calculate_summary_stats(df, brand_totals,
                                            calculate_market_share(brand_totals))
    /\ UNCHANGED <<df, config_file, held, batch, heap>>

Call_analyze_market_data(config, analyzer_type) ==
    /\ call = NoCall
    /\ call' = [op |-> "analyze_market_data", config |-> config,
                analyzer_type |-> analyzer_type]
    /\ ret' = analyze_market_data(df, config, analyzer_type)
    /\ UNCHANGED <<df, config_file, held, batch, heap>>

Next ==
    \/ \E required_cols \in {BaseColumns, BaseColumns \cup {"Extra Column"}} :
            Call_validate_columns(required_cols)
    \/ Call_validate_data
    \/ \E days_per_year \in DaysPerYear : Call_calculate_brand_totals(days_per_year)
    \/ \E days_per_year \in DaysPerYear : Call_calculate_market_share(days_per_year)
    \/ \E days_per_year \in DaysPerYear, i \in 1..Len(VALID_CATEGORIES) :
            Call_create_pivot_table(days_per_year, VALID_CATEGORIES[i])
    \/ \E days_per_year \in DaysPerYear : Call_calculate_summary_stats(days_per_year)
    \/ \E config \in AnalysisConfigs, analyzer_type \in AnalyzerTypes :
            Call_analyze_market_data(config, analyzer_type)

Spec == Init /\ [][Next]_vars

(***************************************************************************)
(* Properties of the per-record allocation (SpecRow)                       *)
(***************************************************************************)
TheRow == df.rows[1]
Slots == 1..Len(BRAND_COLS)

\* the workload a slot adds to daily_sum, read off the cells
SlotWorkload(row, k) ==
    IF standardize_brand(row[BRAND_COLS[k]]) # None
       /\ RGt(clean_numeric(row[WORKLOAD_COLS[k]]), RZero)
    THEN clean_numeric(row[WORKLOAD_COLS[k]])
    ELSE RZero

DailySum(row) == RAdd(SlotWorkload(row, 1), SlotWorkload(row, 2))

SlotWorkloadV1_2(row, k) ==
    IF standardize_brand_V1_2(row[BRAND_COLS[k]]) # None
       /\ PositiveNumber(row[WORKLOAD_COLS[k]])
    THEN row[WORKLOAD_COLS[k]].v
    ELSE RZero

DailySumV1_2(row) == RAdd(SlotWorkloadV1_2(row, 1), SlotWorkloadV1_2(row, 2))

NullBrandCell(cell) ==
    IsNull(cell) \/ StrUpper(StrStrip(PyStr(cell))) \in {S_EMPTY, S_NILL, S_0}

WithoutSlot(cols, k) == SubSeq(cols, 1, k - 1) \o SubSeq(cols, k + 1, Len(cols))

\* C4 -- Null handling.  A slot whose brand cell is null, blank, "NILL" or "0"
\* (trimmed, upper-cased) yields no allocation and adds nothing to daily_sum,
\* whatever its workload cell holds: the allocations are those of the record
\* with that slot not configured, and there are no more of them than slots
\* with another brand cell.
C4_NullHandling ==
    call.op = "allocate_row_brands" =>
        /\ Len(ret.val) <= Cardinality({k \in Slots : ~NullBrandCell(TheRow[BRAND_COLS[k]])})
        /\ \A k \in Slots :
              NullBrandCell(TheRow[BRAND_COLS[k]]) =>
                  ret.val = allocate_row_brands(TheRow, WithoutSlot(BRAND_COLS, k),
                                                WithoutSlot(WORKLOAD_COLS, k),
                                                call.days_per_year)

C4_Witness ==
    /\ call.op = "allocate_row_brands"
    /\ call.days_per_year = 330
    /\ TheRow[BRAND_COLS[1]] = StrCell(Str_nill)
    /\ TheRow[WORKLOAD_COLS[1]] = IntCell(10)
    /\ Len(ret.val) = 1

(***************************************************************************)
(* Properties of the frame-level operations (Spec)                         *)
(***************************************************************************)
Hundred == RInt(100)

\* C2 -- Share normalization.  For non-empty brand totals with a positive
\* grand total, the percentages calculate_market_share returns sum to 100 and
\* each lies between 0 and 100.
C2_ShareNormalization ==
    (/\ call.op = "calculate_market_share"
     /\ call.brand_totals # <<>>
     /\ RGt(SumValues(call.brand_totals), RZero))
    => /\ SumValues(ret.val) = Hundred
       /\ \A i \in 1..Len(ret.val) :
             RLe(RZero, ret.val[i][2]) /\ RLe(ret.val[i][2], Hundred)

C2_Witness ==
    /\ call.op = "calculate_market_share"
    /\ Len(df.rows) = 2
    /\ Len(ret.val) = 2
    /\ RGt(ret.val[1][2], ret.val[2][2])

RECURSIVE SumCells(_, _, _)
\* the sum of a brand's column of a pivot frame over the given category rows
SumCells(frame, groups, brand) ==
    IF groups = {} THEN RZero
    ELSE LET g == CHOOSE x \in groups : TRUE
         IN  RAdd(frame.cell[<<g, brand>>], SumCells(frame, groups \ {g}, brand))

\* C3 -- Pivot consistency.  For every category column of the frame, the
\* pivot has the brands of calculate_brand_totals over the same records and
\* arguments, and each brand's column sums over the category rows to that
\* brand's total; there is no pivot exactly when there are no totals.
C3_PivotConsistency ==
    (call.op = "create_pivot_table" /\ call.groupby_col \in df.columns) =>
        LET brand_totals ==
                calculate_brand_totals(df, BRAND_COLS, WORKLOAD_COLS, call.days_per_year)
            pivot == ret.val
        IN  IF pivot = None THEN brand_totals = <<>>
            ELSE /\ pivot.brands = DictKeys(brand_totals)
                 /\ \A b \in pivot.brands :
                       SumCells(pivot, pivot.index, b) = DictGet(brand_totals, b, RZero)

C3_Witness ==
    /\ call.op = "create_pivot_table"
    /\ call.groupby_col = "Class"
    /\ call.days_per_year = 330
    /\ ret.val # None
    /\ Cardinality(ret.val.index) = 2
    /\ Cardinality(ret.val.brands) = 2
    /\ \E gb \in DOMAIN ret.val.cell : ret.val.cell[gb] = RZero

C6_ValidateData ==
    /\ call.op = "validate_data" =>
          ret = IF df.rows = <<>> \/ \E c \in BaseColumns : c \notin df.columns
                THEN Raise("ValueError")
                ELSE Return(TRUE)
    /\ call.op = "validate_columns" =>
          ret = IF \E c \in call.required_cols : c \notin df.columns
                THEN Raise("ValueError")
                ELSE Return(TRUE)

C6_Witness ==
    /\ call.op = "validate_data"
    /\ df.rows # <<>>
    /\ df.columns = AllColumns \ {"Region"}
    /\ ret = Raise("ValueError")

\* C7 -- Empty-result condition.  Whenever the totals of the record set sum to
\* zero or less, calculate_market_share returns an empty mapping and
\* create_pivot_table returns no table, and neither raises.
C7_EmptyResult ==
    /\ (call.op = "calculate_market_share" /\ RLe(SumValues(call.brand_totals), RZero))
          => ret = Return(<<>>)
    /\ (/\ call.op = "create_pivot_table"
        /\ RLe(SumValues(calculate_brand_totals(df, BRAND_COLS, WORKLOAD_COLS,
                                                call.days_per_year)), RZero))
          => ret = Return(None)

\* C8 -- With an empty market_share, calculate_summary_stats, and
\* analyze_market_data on data that passed validation, do not raise.
C8_NoTopBrand ==
    /\ (/\ call.op = "calculate_summary_stats"
        /\ call.market_share = <<>>
        /\ BaseColumns \subseteq df.columns)
          => ~Raised(ret)
    /\ (/\ call.op = "analyze_market_data"
        /\ ~Raised(validate_data(df))
        /\ calculate_market_share(
               calculate_brand_totals(df, BRAND_COLS, WORKLOAD_COLS,
                                      call.config.analysis_settings.days_per_year)) = <<>>)
          => ~Raised(ret)

\* the largest percentage of a market_share
IsLargestShare(market_share, brand) ==
    /\ DictHas(market_share, brand)
    /\ \A i \in 1..Len(market_share) :
          RLe(market_share[i][2], DictGet(market_share, brand, RZero))

\* the number of records carrying a category value
Carrying(col, v) == Cardinality({i \in 1..Len(df.rows) : df.rows[i][col] = v})

\* C9 -- With a non-empty market_share, calculate_summary_stats returns
\* total_sites = the number of distinct Customer Name values, or the record
\* count when there is no such column; total_volume = the sum of brand_totals;
\* top_brand = a brand of the largest share; and, for the Class and Region
\* columns, the number of records carrying each value.
C9_SummaryStats ==
    (/\ call.op = "calculate_summary_stats"
     /\ call.market_share # <<>>
     /\ {"CITY", "Class", "Region"} \subseteq df.columns)
    => /\ ~Raised(ret)
       /\ ret.val.total_sites =
             IF "Customer Name" \in df.columns
             THEN Cardinality({df.rows[i]["Customer Name"] : i \in 1..Len(df.rows)}
                              \ {NaN})
             ELSE Len(df.rows)
       /\ ret.val.total_volume = SumValues(call.brand_totals)
       /\ IsLargestShare(call.market_share, ret.val.top_brand)
       /\ \A v \in DOMAIN ret.val.class_distribution :
             ret.val.class_distribution[v] = Carrying("Class", v)
       /\ \A v \in DOMAIN ret.val.region_distribution :
             ret.val.region_distribution[v] = Carrying("Region", v)

(***************************************************************************)
(* ConfigManager: construction against every state of the file (SpecConfig)*)
(***************************************************************************)
ValidDepartment == [brand_cols |-> <<"b1", "b2">>, workload_cols |-> <<"w1", "w2">>]
InvalidDepartments ==
    {[brand_cols |-> <<"b1", "b2">>],
     [workload_cols |-> <<"w1", "w2">>],
     [brand_cols |-> <<"b1", "b2">>, workload_cols |-> <<"w1">>],
     [brand_cols |-> << >>, workload_cols |-> <<"w1">>]}

ValidHeaders == [dept \in Departments |-> ValidDepartment]

\* the headers of a document: valid, one department invalid, or one absent
HeaderDocs ==
    {ValidHeaders}
    \cup {[ValidHeaders EXCEPT ![dept] = bad] : dept \in Departments, bad \in InvalidDepartments}
    \cup {[d \in Departments \ {dept} |-> ValidDepartment] : dept \in Departments}

DaysValues ==
    {JsonInt(300), JsonInt(0), [t |-> "bool", v |-> TRUE],
     [t |-> "float", v |-> Rat(661, 2)], [t |-> "str", v |-> <<"3", "3", "0">>],
     [t |-> "null"]}

CostDocs == UNION {[present -> {250}] : present \in SUBSET Departments}

\* a document with the given entries; an entry given as None is absent
Document(days, headers, cost) ==
    LET keys == (IF days = None THEN {} ELSE {"days_per_year"})
                \cup (IF headers = None THEN {} ELSE {"headers"})
                \cup (IF cost = None THEN {} ELSE {"cost_per_test"})
    IN  [k \in keys |->
            CASE k = "days_per_year" -> days
              [] k = "headers" -> headers
              [] k = "cost_per_test" -> cost]

Documents ==
    {Document(days, h, c) :
        days \in DaysValues \cup {None}, h \in HeaderDocs, c \in CostDocs}
    \cup {Document(days, None, None) : days \in DaysValues \cup {None}}
    \cup {Document(days, ValidHeaders, None) : days \in DaysValues \cup {None}}

ConfigFiles ==
    {NoFile, UnreadableFile, InvalidJsonFile, JsonFile(JsonList)}
    \cup {JsonFile(JsonObject(doc)) : doc \in Documents}

InitConfig ==
    /\ df = Frame(<< >>, {})
    /\ call = NoCall
    /\ ret = None
    /\ config_file \in ConfigFiles
    /\ held = None
    /\ batch = NoBatch
    /\ heap = NoHeap

\* ConfigManager(config_path): self._config = self._load_config()
Construct ==
    /\ call = NoCall
    /\ call' = [op |-> "ConfigManager"]
    /\ held' = ConfigManager_load_config(config_file)
    /\ ret' = Return(None)
    /\ UNCHANGED <<df, config_file, batch, heap>>

NextConfig == Construct

SpecConfig == InitConfig /\ [][NextConfig]_vars

\* the document in the configuration file, when the file holds a JSON object
FileDoc == config_file.value.doc
FileHoldsObject == config_file.kind = "json" /\ config_file.value.t = "object"

\* days_per_year is an integer as isinstance(x, int) reads it: JSON true and
\* false load as bool, which is an int
DaysIsInteger ==
    /\ "days_per_year" \in DOMAIN FileDoc
    /\ FileDoc.days_per_year.t \in {"int", "bool"}

DepartmentMissing ==
    \/ "headers" \notin DOMAIN FileDoc
    \/ \E dept \in Departments : dept \notin DOMAIN FileDoc.headers

DepartmentLacksColumns ==
    /\ "headers" \in DOMAIN FileDoc
    /\ \E dept \in Departments \cap DOMAIN FileDoc.headers :
          \/ "brand_cols" \notin DOMAIN FileDoc.headers[dept]
          \/ "workload_cols" \notin DOMAIN FileDoc.headers[dept]

LengthsDiffer ==
    /\ "headers" \in DOMAIN FileDoc
    /\ \E dept \in Departments \cap DOMAIN FileDoc.headers :
          /\ {"brand_cols", "workload_cols"} \subseteq DOMAIN FileDoc.headers[dept]
          /\ Len(FileDoc.headers[dept].brand_cols)
                # Len(FileDoc.headers[dept].workload_cols)

FileRejected ==
    \/ config_file.kind \in {"absent", "invalid_json"}
    \/ /\ FileHoldsObject
       /\ \/ ~DaysIsInteger
          \/ DepartmentMissing
          \/ DepartmentLacksColumns
          \/ LengthsDiffer

FileValidButCosts ==
    /\ FileHoldsObject
    /\ DaysIsInteger
    /\ ~DepartmentMissing
    /\ ~DepartmentLacksColumns
    /\ ~LengthsDiffer

FileCosts == IF "cost_per_test" \in DOMAIN FileDoc THEN FileDoc.cost_per_test ELSE << >>

AnalyzedValid ==
    /\ call.op = "analyze_market_data"
    /\ validate_data(df) = Return(TRUE)
    /\ "analyzers" \in DOMAIN call.config

\* the column lists configured for the analyzed category, <<>> when absent
ConfiguredList(key) ==
    IF /\ call.analyzer_type \in DOMAIN call.config.analyzers
       /\ key \in DOMAIN call.config.analyzers[call.analyzer_type]
    THEN call.config.analyzers[call.analyzer_type][key]
    ELSE <<>>

\* C11 -- a configuration error is fatal to the category's run: whenever the
\* category's brand-column and workload-column lists have different lengths,
\* or either list is missing or empty, analyze_market_data raises an error
\* that names the category and returns no result.
C11_ConfigurationErrorFatal ==
    AnalyzedValid =>
        ((\/ ConfiguredList("brand_columns") = <<>>
          \/ ConfiguredList("workload_columns") = <<>>
          \/ Len(ConfiguredList("brand_columns")) # Len(ConfiguredList("workload_columns")))
            => (Raised(ret) /\ "names" \in DOMAIN ret /\ ret.names = call.analyzer_type))

(***************************************************************************)
(* main.py: ModernMarketAnalyzer.process_consolidated (SpecBatch)          *)
(***************************************************************************)
\* for analyzer_type in ["IA", "CBC", "CHEM"]
CONSOLIDATED_ANALYZERS == <<"IA", "CBC", "CHEM">>

\* the entry of an analyzer the configuration holds: complete, or without
\* workload columns
BatchEntries ==
    {[brand_columns |-> BRAND_COLS, workload_columns |-> WORKLOAD_COLS,
      test_price |-> RInt(250)],
     [brand_columns |-> BRAND_COLS, workload_columns |-> <<>>, test_price |-> RInt(250)]}

\* every analyzer has an entry of either kind, or none
BatchConfigs ==
    {[analyzers |-> entries, analysis_settings |-> [days_per_year |-> 330]] :
        entries \in UNION {[present -> BatchEntries] :
                              present \in SUBSET {"IA", "CBC", "CHEM"}}}

\* the frames of a consolidated run: one record of the pool, or no record
BatchFrames ==
    {Frame(<<row>>, AllColumns) : row \in PoolRows} \cup {Frame(<<>>, AllColumns)}

InitBatch ==
    /\ df \in BatchFrames
    /\ call = NoCall
    /\ ret = None
    /\ config_file = NoFile
    /\ held = None
    /\ batch \in {[pc |-> "ready", config |-> config] : config \in BatchConfigs}
    /\ heap = NoHeap

\* process_consolidated(df) is entered: the loop is before its first analyzer
Consolidated_start ==
    /\ batch.pc = "ready"
    /\ batch' = [pc |-> "loop", config |-> batch.config, i |-> 1,
                 latest_results |-> None, displayed |-> <<>>, saved |-> <<>>,
                 visualized |-> <<>>, message |-> None]
    /\ UNCHANGED <<df, call, ret, config_file, held, heap>>

\* one pass of the loop body.  An exception of analyze_market_data leaves the
\* loop for the except clause around it, which logs and shows the critical
\* message box; otherwise the results are stored, displayed, saved and drawn.
Consolidated_analyze ==
    /\ batch.pc = "loop"
    /\ batch.i <= Len(CONSOLIDATED_ANALYZERS)
    /\ \E results \in {analyze_market_data(df, batch.config,
                                            CONSOLIDATED_ANALYZERS[batch.i])} :
          IF Raised(results)
          THEN batch' = [batch EXCEPT !.pc = "failed", !.message = "critical"]
          ELSE batch' = [batch EXCEPT
                            !.i = batch.i + 1,
                            !.latest_results = results.val,
                            !.displayed = Append(batch.displayed,
                                                 CONSOLIDATED_ANALYZERS[batch.i]),
                            !.saved = Append(batch.saved, CONSOLIDATED_ANALYZERS[batch.i]),
                            !.visualized = Append(batch.visualized,
                                                  CONSOLIDATED_ANALYZERS[batch.i])]
    /\ UNCHANGED <<df, call, ret, config_file, held, heap>>

\* the loop is exhausted: "Consolidated processing completed successfully."
Consolidated_complete ==
    /\ batch.pc = "loop"
    /\ batch.i > Len(CONSOLIDATED_ANALYZERS)
    /\ batch' = [batch EXCEPT !.pc = "done", !.message = "information"]
    /\ UNCHANGED <<df, call, ret, config_file, held, heap>>

NextBatch ==
    \/ Consolidated_start
    \/ Consolidated_analyze
    \/ Consolidated_complete

SpecBatch == InitBatch /\ [][NextBatch]_vars

\* the analysis of the k-th analyzer of the sequence, taken alone, fails
FailsAlone(k) == Raised(analyze_market_data(df, batch.config, CONSOLIDATED_ANALYZERS[k]))

InSeq(seq, x) == \E j \in 1..Len(seq) : seq[j] = x

\* C12 -- in a consolidated run over IA, CBC and CHEM a failure of one
\* analyzer's analysis does not abort the others: once the run has ended,
\* every analyzer that comes after a failed one and whose own analysis
\* succeeds has had its results displayed and saved.
C12_BatchContinues ==
    batch.pc \in {"done", "failed"} =>
        \A k \in 1..Len(CONSOLIDATED_ANALYZERS) :
            ((\E j \in 1..(k - 1) : FailsAlone(j)) /\ ~FailsAlone(k))
                => /\ InSeq(batch.displayed, CONSOLIDATED_ANALYZERS[k])
                   /\ InSeq(batch.saved, CONSOLIDATED_ANALYZERS[k])

(***************************************************************************)
(* Configured columns the records do not have                              *)
(***************************************************************************)
\* the slot a brand or workload column belongs to
SlotOf(column) ==
    CHOOSE k \in Slots : BRAND_COLS[k] = column \/ WORKLOAD_COLS[k] = column

\* C13 -- when a configured brand or workload column is absent from the
\* record, the allocation does not raise, the slot of that column yields no
\* allocation, and the allocations are exactly those of the record with that
\* slot not configured.
C13_MissingColumn ==
    call.op = "allocate_row_brands_missing_column" =>
        /\ ~Raised(ret)
        /\ ret.val = allocate_row_brands(TheRow,
                                         WithoutSlot(BRAND_COLS, SlotOf(call.column)),
                                         WithoutSlot(WORKLOAD_COLS, SlotOf(call.column)),
                                         call.days_per_year)
        /\ Len(ret.val) <= Len(BRAND_COLS) - 1

\* the workload column of a slot with a brand and a positive workload is
\* absent, and the other slot keeps its allocation
C13_Witness ==
    /\ call.op = "allocate_row_brands_missing_column"
    /\ call.column = WORKLOAD_COLS[1]
    /\ standardize_brand(TheRow[BRAND_COLS[1]]) # None
    /\ RGt(clean_numeric(TheRow[WORKLOAD_COLS[1]]), RZero)
    /\ Len(ret.val) = 1
    /\ ret.val[1][1] = standardize_brand(TheRow[BRAND_COLS[2]]).s

(***************************************************************************)
(* Value-based analysis                                                    *)
(***************************************************************************)
\* the test_price of the analyzed category, 0 when it configures none
ConfiguredPrice ==
    IF "test_price" \in DOMAIN call.config.analyzers[call.analyzer_type]
    THEN call.config.analyzers[call.analyzer_type].test_price
    ELSE RZero

\* C14 -- in every result of analyze_market_data, brand_values has exactly the
\* brand keys of brand_totals and brand_values[brand] = brand_totals[brand] x
\* test_price of the category, test_price being 0 when none is configured.
C14_BrandValues ==
    (call.op = "analyze_market_data" /\ ~Raised(ret)) =>
        /\ DictKeys(ret.val.brand_values) = DictKeys(ret.val.brand_totals)
        /\ Len(ret.val.brand_values) = Len(ret.val.brand_totals)
        /\ \A brand \in DictKeys(ret.val.brand_totals) :
              DictGet(ret.val.brand_values, brand, None)
                  = RMul(DictGet(ret.val.brand_totals, brand, None), ConfiguredPrice)

C14_Witness ==
    /\ call.op = "analyze_market_data"
    /\ ~Raised(ret)
    /\ Len(ret.val.brand_totals) = 2
    /\ ConfiguredPrice = RInt(250)
    /\ \A i \in 1..2 : RGt(ret.val.brand_values[i][2], ret.val.brand_totals[i][2])

(***************************************************************************)
(* Order of the market shares                                              *)
(***************************************************************************)
\* the position of a key in a dict
PositionIn(dct, k) == CHOOSE i \in 1..Len(dct) : dct[i][1] = k

\* C15 -- calculate_market_share orders its entries by descending volume, two
\* brands of equal volume keeping the order they have in brand_totals, and
\* each entry is 100 x the brand's total / the grand total.
C15_StableDescending ==
    (call.op = "calculate_market_share" /\ ret.val # <<>>) =>
        /\ DictKeys(ret.val) = DictKeys(call.brand_totals)
        /\ Len(ret.val) = Len(call.brand_totals)
        /\ \A i \in 1..Len(ret.val) :
              ret.val[i][2] = RDiv(RMul(RInt(100), DictGet(call.brand_totals, ret.val[i][1], None)),
                                   SumValues(call.brand_totals))
        /\ \A i, j \in 1..Len(ret.val) :
              i < j =>
                LET vi == DictGet(call.brand_totals, ret.val[i][1], None)
                    vj == DictGet(call.brand_totals, ret.val[j][1], None)
                IN  \/ RGt(vi, vj)
                    \/ /\ vi = vj
                       /\ PositionIn(call.brand_totals, ret.val[i][1])
                            < PositionIn(call.brand_totals, ret.val[j][1])

\* two brands of equal volume, kept in the order of brand_totals
C15_Witness ==
    /\ call.op = "calculate_market_share"
    /\ Len(ret.val) = 2
    /\ ret.val[1][2] = ret.val[2][2]
    /\ ret.val[1][1] = call.brand_totals[1][1]

(***************************************************************************)
(* The fold of calculate_brand_totals                                      *)
(***************************************************************************)
\* brand_totals after the first k records of the call's frame
TotalsAfter(k) == brand_totals_loop(df, BRAND_COLS, WORKLOAD_COLS, call.days_per_year, k)

\* C16 -- while calculate_brand_totals folds the records in, no brand's
\* cumulative total ever decreases and no total is ever negative, for every
\* integer days_per_year.
C16_MonotoneTotals ==
    call.op = "calculate_brand_totals" =>
        \A k \in 1..Len(df.rows) :
            /\ \A i \in 1..Len(TotalsAfter(k)) : RLe(RZero, TotalsAfter(k)[i][2])
            /\ \A brand \in DictKeys(TotalsAfter(k - 1)) :
                  RLe(DictGet(TotalsAfter(k - 1), brand, RZero),
                      DictGet(TotalsAfter(k), brand, RZero))

(***************************************************************************)
(* Order of the records                                                    *)
(***************************************************************************)
RecordOrders(n) == {p \in [1..n -> 1..n] : \A i, j \in 1..n : p[i] = p[j] => i = j}

\* the frame with its records in the order p
Permuted(frame, p) == [frame EXCEPT !.rows = [i \in 1..Len(frame.rows) |-> frame.rows[p[i]]]]

\* a dict as a mapping: two dicts are equal whatever their insertion order
AsMapping(dct) == {<<dct[i][1], dct[i][2]>> : i \in 1..Len(dct)}

\* C17 -- aggregation is order-independent: for every permutation of the
\* records calculate_brand_totals returns the same brand -> total mapping.
C17_OrderIndependent ==
    call.op = "calculate_brand_totals" =>
        \A p \in RecordOrders(Len(df.rows)) :
            AsMapping(calculate_brand_totals(Permuted(df, p), BRAND_COLS, WORKLOAD_COLS,
                                             call.days_per_year))
                = AsMapping(ret.val)

\* two records that share a brand and whose other order inserts the brands
\* in another order
C17_Witness ==
    /\ call.op = "calculate_brand_totals"
    /\ call.days_per_year = 330
    /\ Len(df.rows) = 2
    /\ Len(ret.val) = 2
    /\ \E p \in RecordOrders(2) :
          calculate_brand_totals(Permuted(df, p), BRAND_COLS, WORKLOAD_COLS, 330) # ret.val
    /\ \E i \in 1..2 :
          /\ DictHas(allocate_row_brands(df.rows[1], BRAND_COLS, WORKLOAD_COLS, 330),
                     ret.val[i][1])
          /\ DictHas(allocate_row_brands(df.rows[2], BRAND_COLS, WORKLOAD_COLS, 330),
                     ret.val[i][1])

(***************************************************************************)
(* The configuration ConfigManager holds, given to analyze_market_data     *)
(***************************************************************************)
\* C18 -- given valid records and a configuration of the shape ConfigManager
\* produces (top-level days_per_year, headers[analyzer] with brand_cols and
\* workload_cols, cost_per_test[analyzer]), analyze_market_data for a
\* configured analyzer returns an AnalysisResult with the brand totals and
\* market shares of that analyzer instead of failing.
C18_ManagerConfigAnalyzed ==
    (/\ call.op = "analyze_market_data"
     /\ validate_data(df) = Return(TRUE)
     /\ "headers" \in DOMAIN call.config
     /\ call.analyzer_type \in DOMAIN call.config.headers)
        => /\ ~Raised(ret)
           /\ AsMapping(ret.val.brand_totals)
                = AsMapping(calculate_brand_totals(
                                df,
                                call.config.headers[call.analyzer_type].brand_cols,
                                call.config.headers[call.analyzer_type].workload_cols,
                                call.config.days_per_year.v))
           /\ ret.val.market_share = calculate_market_share(ret.val.brand_totals)

(***************************************************************************)
(* standardize_brand on raw cell values (SpecBrand)                        *)
(***************************************************************************)
\* labels as they are typed: sentinel tokens and brands in several spellings
TypedLabels ==
    {S_NILL, <<"n", "i", "l", "l">>, <<"N", "i", "l", "L">>, S_NIL, <<"n", "i", "l">>,
     S_0, S_NA, S_na, <<"N", "a">>, S_NULL, S_null, <<"N", "u", "l", "l">>, S_EMPTY,
     Str_AB, <<"a", "b">>, <<"A", "b">>, Str_C, <<"c">>,
     <<"N", "A", "N">>, <<"n", "a", "n">>, <<"A", " ", "b">>, <<"0", "0">>,
     <<"N", "I", "L", "L", "S">>}

\* a label with the whitespace a cell may carry around it
Paddings(s) ==
    {s, <<" ">> \o s, s \o <<" ">>, <<"\t">> \o s \o <<"\n">>, <<" ", " ">> \o s \o <<" ">>}

BrandValues ==
    {StrCell(t) : t \in UNION {Paddings(s) : s \in TypedLabels}}
    \cup {NaN, IntCell(0), IntCell(7), IntCell(-3), FloatCell(RZero), FloatCell(Rat(5, 2))}

\* the frame holds the raw value in its first brand column
InitBrand ==
    /\ df \in {Frame(<<[c \in {BRAND_COLS[1]} |-> brand]>>, {BRAND_COLS[1]}) :
                  brand \in BrandValues}
    /\ call = NoCall
    /\ ret = None
    /\ config_file = NoFile
    /\ held = None
    /\ batch = NoBatch
    /\ heap = NoHeap

Call_standardize_brand ==
    /\ call = NoCall
    /\ call' = [op |-> "standardize_brand", brand |-> df.rows[1][BRAND_COLS[1]]]
    /\ ret' = Return(standardize_brand(df.rows[1][BRAND_COLS[1]]))
    /\ UNCHANGED <<df, config_file, held, batch, heap>>

\* standardize_brand on the label a first call returned
Call_standardize_brand_again ==
    /\ call.op = "standardize_brand"
    /\ ret.val # None
    /\ call' = [op |-> "standardize_brand_again", brand |-> ret.val]
    /\ ret' = Return(standardize_brand(ret.val))
    /\ UNCHANGED <<df, config_file, held, batch, heap>>

NextBrand ==
    \/ Call_standardize_brand
    \/ Call_standardize_brand_again

SpecBrand == InitBrand /\ [][NextBrand]_vars

\* the text of a value between its first and last character that is not
\* whitespace
Core(s) ==
    LET inked == {i \in 1..Len(s) : s[i] \notin Whitespace}
    IN  IF inked = {} THEN <<>>
        ELSE SubSeq(s, CHOOSE i \in inked : \A j \in inked : i <= j,
                       CHOOSE i \in inked : \A j \in inked : j <= i)

\* two texts that differ in letter case only
SameButCase(a, b) ==
    /\ Len(a) = Len(b)
    /\ \A i \in 1..Len(a) : UpperChar(a[i]) = UpperChar(b[i])

SentinelTokens == {S_NILL, S_NIL, S_0, S_NA, S_NULL}

\* the value is null, blank, or a sentinel token once trimmed and upper-cased
AbsentValue(cell) ==
    \/ IsNull(cell)
    \/ Core(PyStr(cell)) = <<>>
    \/ \E token \in SentinelTokens : SameButCase(Core(PyStr(cell)), token)

\* C19 -- standardize_brand never raises; it returns absent for a null, blank
\* or sentinel value (NILL, NIL, 0, NA, NULL after trimming and upper-casing)
\* and the trimmed upper-case string otherwise; values that differ only in
\* letter case or surrounding whitespace give the same brand, and a
\* normalized label normalizes to itself.
C19_StandardizeBrand ==
    /\ call.op = "standardize_brand" =>
          /\ ~Raised(ret)
          /\ (ret.val = None) <=> AbsentValue(call.brand)
          /\ ret.val # None =>
                /\ ret.val.t = "str"
                /\ SameButCase(ret.val.s, Core(PyStr(call.brand)))
                /\ \A i \in 1..Len(ret.val.s) : UpperChar(ret.val.s[i]) = ret.val.s[i]
          /\ \A other \in BrandValues :
                (/\ ~IsNull(other)
                 /\ ~IsNull(call.brand)
                 /\ SameButCase(Core(PyStr(other)), Core(PyStr(call.brand))))
                    => standardize_brand(other) = ret.val
    /\ call.op = "standardize_brand_again" => ret.val = call.brand

\* a padded lower-case label became AB, and AB stays AB
C19_Witness ==
    /\ call.op = "standardize_brand_again"
    /\ df.rows[1][BRAND_COLS[1]] = StrCell(<<"\t", "a", "b", "\n">>)
    /\ ret.val = StrCell(Str_AB)

(***************************************************************************)
(* One allocation per qualifying slot (SpecRow)                            *)
(***************************************************************************)
\* the slots whose brand is present and whose workload is > 0, in slot order
QualifyingSlots(row) ==
    SelectSeq(<<1, 2>>, LAMBDA k : RGt(SlotWorkload(row, k), RZero))

C21_NoNonPositiveVolume ==
    /\ call.op = "allocate_row_brands" =>
          /\ RLe(RMul(DailySum(TheRow), RInt(call.days_per_year)), RZero) => ret.val = <<>>
          /\ \A i \in 1..Len(ret.val) : RGt(ret.val[i][2], RZero)
    /\ call.op = "allocate_row_brands_V1_2" =>
          /\ ~PositiveNumber(call.parsed.rows[1][YEARLY_COL]) => ret.val = <<>>
          /\ \A i \in 1..Len(ret.val) : RGt(ret.val[i][2], RZero)

(***************************************************************************)
(* Brand totals as sums of the per-record allocations (Spec)               *)
(***************************************************************************)
\* what allocate_row_brands gives for the k-th record of the call's frame
AllocationsOf(k) ==
    allocate_row_brands(df.rows[k], BRAND_COLS, WORKLOAD_COLS, call.days_per_year)

RECURSIVE VolumeIn(_, _)
\* the volumes a list of allocations gives to a brand, added up
VolumeIn(allocations, brand) ==
    IF allocations = <<>> THEN RZero
    ELSE RAdd(IF Head(allocations)[1] = brand THEN Head(allocations)[2] ELSE RZero,
              VolumeIn(Tail(allocations), brand))

RECURSIVE VolumeUpTo(_, _)
\* the volumes the first k records give to a brand, added up
VolumeUpTo(k, brand) ==
    IF k = 0 THEN RZero
    ELSE RAdd(VolumeUpTo(k - 1, brand), VolumeIn(AllocationsOf(k), brand))

NamedWorkload(row, brand) ==
    RAdd(IF standardize_brand(row[BRAND_COLS[1]]) = StrCell(brand)
         THEN SlotWorkload(row, 1) ELSE RZero,
         IF standardize_brand(row[BRAND_COLS[2]]) = StrCell(brand)
         THEN SlotWorkload(row, 2) ELSE RZero)

\* row_yearly_volume * (workload naming the brand) / daily_sum of a record
Credit(row, brand, days_per_year) ==
    IF RGt(DailySum(row), RZero)
    THEN RDiv(RMul(RMul(DailySum(row), RInt(days_per_year)), NamedWorkload(row, brand)),
              DailySum(row))
    ELSE RZero

RECURSIVE CreditUpTo(_, _)
\* the credits the first k records of the frame give the brand
CreditUpTo(k, brand) ==
    IF k = 0 THEN RZero
    ELSE RAdd(CreditUpTo(k - 1, brand), Credit(df.rows[k], brand, call.days_per_year))

\* both slots of the record qualify and name the same brand
NamedTwice(row) ==
    /\ RGt(SlotWorkload(row, 1), RZero)
    /\ RGt(SlotWorkload(row, 2), RZero)
    /\ standardize_brand(row[BRAND_COLS[1]]) = standardize_brand(row[BRAND_COLS[2]])

\* the category label create_pivot_table files a record under
GroupValue(row, groupby_col) == StrStrip(PyStr(row[groupby_col]))

RECURSIVE CreditUnder(_, _, _)
\* the credits the first k records filed under the category label g give the brand
CreditUnder(k, brand, g) ==
    IF k = 0 THEN RZero
    ELSE RAdd(CreditUnder(k - 1, brand, g),
              IF GroupValue(df.rows[k], call.groupby_col) = g
              THEN Credit(df.rows[k], brand, call.days_per_year)
              ELSE RZero)

WrittenNumber(cell) ==
    CASE IsNull(cell) -> RZero
      [] cell.t \in {"int", "float"} -> cell.v
      [] cell.t = "str" -> ParsedOr(ParseStripped(WithoutCommas(StrStrip(cell.s))), RZero)

\* the workload a slot counts for when its cell is read as WrittenNumber
WrittenWorkload(row, k) ==
    IF standardize_brand(row[BRAND_COLS[k]]) # None
       /\ RGt(WrittenNumber(row[WORKLOAD_COLS[k]]), RZero)
    THEN WrittenNumber(row[WORKLOAD_COLS[k]])
    ELSE RZero

\* C24 -- workload coercion is total: a missing, null or non-numeric workload
\* cell counts as 0 without raising and the other slot is still allocated, a
\* non-positive workload contributes nothing, and a numeric cell written with
\* thousands commas or surrounding whitespace counts as its numeric value: the
\* slots allocated are those with a brand and a written number > 0, and the
\* volumes add up to days_per_year times the sum of those numbers.
C24_WorkloadCoercion ==
    call.op = "allocate_row_brands" =>
        /\ ~Raised(ret)
        /\ Len(ret.val) = Cardinality({k \in Slots : RGt(WrittenWorkload(TheRow, k), RZero)})
        /\ SumValues(ret.val) =
              RMul(RAdd(WrittenWorkload(TheRow, 1), WrittenWorkload(TheRow, 2)),
                   RInt(call.days_per_year))

(***************************************************************************)
(* Category labels of the pivot (Spec)                                     *)
(***************************************************************************)
S_UNKNOWN == <<"U", "N", "K", "N", "O", "W", "N">>

\* the label a category cell stands for: "UNKNOWN" when it is null or blank,
\* its text without surrounding whitespace otherwise
CategoryLabel(cell) ==
    IF IsNull(cell) \/ StrStrip(PyStr(cell)) = <<>> THEN S_UNKNOWN
    ELSE StrStrip(PyStr(cell))

\* C25 -- in create_pivot_table a record whose category cell is missing, null
\* or blank is accumulated under the label "UNKNOWN", and every other category
\* value is used after trimming surrounding whitespace: the rows of the pivot
\* are the labels of the records that were allocated something.
C25_UnknownCategory ==
    (call.op = "create_pivot_table" /\ ret.val # None) =>
        ret.val.index =
            {CategoryLabel(df.rows[k][call.groupby_col]) :
                k \in {j \in 1..Len(df.rows) : AllocationsOf(j) # <<>>}}

(***************************************************************************)
(* The empty result of create_pivot_table (Spec)                           *)
(***************************************************************************)
\* some record of the call's frame yields an allocation
SomeAllocation == \E k \in 1..Len(df.rows) : AllocationsOf(k) # <<>>

AllocatedRecords == {k \in 1..Len(df.rows) : AllocationsOf(k) # <<>>}

RECURSIVE CellVolume(_, _, _)
\* the volumes the first k records filed under the label g allocate to the brand
CellVolume(k, g, brand) ==
    IF k = 0 THEN RZero
    ELSE RAdd(CellVolume(k - 1, g, brand),
              IF GroupValue(df.rows[k], call.groupby_col) = g
              THEN VolumeIn(AllocationsOf(k), brand) ELSE RZero)

WorkloadSums == aggregate_brand_workloads(df, BRAND_COLS, WORKLOAD_COLS)

RECURSIVE SumOver(_, _)
\* the V1_0 workload sums of the brands of a mapping, added up
SumOver(dct, sums) ==
    IF dct = <<>> THEN RZero
    ELSE RAdd(DictGet(sums, Head(dct)[1], RZero), SumOver(Tail(dct), sums))

\* every allocation of the record is slot workload * days_per_year
DirectAllocations(k) ==
    AllocationsOf(k) =
        [i \in 1..Len(QualifyingSlots(df.rows[k])) |->
            <<standardize_brand(df.rows[k][BRAND_COLS[QualifyingSlots(df.rows[k])[i]]]).s,
              RMul(clean_numeric(df.rows[k][WORKLOAD_COLS[QualifyingSlots(df.rows[k])[i]]]),
                   RInt(call.days_per_year))>>]

NormalizedLabel(s) ==
    /\ s # <<>>
    /\ s[1] \notin Whitespace
    /\ s[Len(s)] \notin Whitespace
    /\ \A i \in 1..Len(s) : UpperChar(s[i]) = s[i]
    /\ s \notin SentinelTokens

\* C29 -- in every AnalysisResult market_share is either empty or has exactly
\* the brand keys of brand_totals, and every key of brand_totals is a
\* normalized brand label, so brand_totals and brand_values have an entry for
\* every brand of market_share; calculate_market_share by itself returns either
\* the empty mapping or one with the keys of its argument.
C29_ResultKeys ==
    /\ (call.op = "analyze_market_data" /\ ~Raised(ret)) =>
          /\ ret.val.market_share = <<>>
                \/ DictKeys(ret.val.market_share) = DictKeys(ret.val.brand_totals)
          /\ \A brand \in DictKeys(ret.val.brand_totals) : NormalizedLabel(brand)
          /\ \A brand \in DictKeys(ret.val.market_share) :
                /\ DictHas(ret.val.brand_totals, brand)
                /\ DictHas(ret.val.brand_values, brand)
    /\ call.op = "calculate_market_share" =>
          /\ ret.val = <<>> \/ DictKeys(ret.val) = DictKeys(call.brand_totals)
          /\ \A brand \in DictKeys(call.brand_totals) : NormalizedLabel(brand)

\* a result with two brands from records that also hold a sentinel brand cell
\* and a brand written with surrounding whitespace in lower case
C29_Witness ==
    /\ call.op = "analyze_market_data"
    /\ ~Raised(ret)
    /\ Len(ret.val.market_share) = 2
    /\ \E k \in 1..Len(df.rows) : df.rows[k][BRAND_COLS[1]] = StrCell(Str_nill)
    /\ \E k \in 1..Len(df.rows) : df.rows[k][BRAND_COLS[1]] = StrCell(Str_ab)

(***************************************************************************)
(* ConfigManager.save_config (SpecSave).  Python dictionaries are objects: *)
(* _validate_config returns its argument or the module's DEFAULT_CONFIG,   *)
(* save_config keeps what it returns, and get_config hands the kept        *)
(* dictionary out.  heap.objs gives each dictionary its present content:   *)
(* the module's DEFAULT_CONFIG and two other dictionaries, "a" and "b";    *)
(* heap.config is the dictionary self._config refers to and heap.handle    *)
(* the dictionary the caller holds.  held is the content of heap.config.   *)
(***************************************************************************)
DictIds == {"DEFAULT_CONFIG", "a", "b"}

\* the documents a caller builds: valid without costs, valid with some costs,
\* days_per_year a string, a department absent, lists of different lengths
SaveDocuments ==
    {Document(JsonInt(300), ValidHeaders, None),
     Document(JsonInt(0), ValidHeaders, [dept \in {"IA"} |-> 250]),
     Document([t |-> "str", v |-> <<"3", "3", "0">>], ValidHeaders, None),
     Document(JsonInt(300), [d \in Departments \ {"CHEM"} |-> ValidDepartment], None),
     Document(JsonInt(300),
              [ValidHeaders EXCEPT !["IA"] =
                  [brand_cols |-> <<"b1", "b2">>, workload_cols |-> <<"w1">>]],
              None)}

SaveFiles ==
    {NoFile, InvalidJsonFile}
    \cup {JsonFile(JsonObject(Document(JsonInt(300), ValidHeaders, None)))}

\* the dictionary _load_config returns: DEFAULT_CONFIG itself, or the one
\* json.load built when _validate_config accepts it
LoadedDict(file) ==
    IF file.kind = "json" /\ ~Raised(validate_config_try(file.value))
    THEN "a" ELSE "DEFAULT_CONFIG"

\* the state after ConfigManager(config_path)
InitSave ==
    /\ df = Frame(<< >>, {})
    /\ call = [op |-> "ConfigManager"]
    /\ ret = Return(None)
    /\ config_file \in SaveFiles
    /\ held = ConfigManager_load_config(config_file)
    /\ batch = NoBatch
    /\ heap = [objs |-> [id \in DictIds |->
                            CASE id = "DEFAULT_CONFIG" -> DEFAULT_CONFIG
                              [] id = LoadedDict(config_file) ->
                                    ConfigManager_load_config(config_file)
                              [] OTHER -> None],
               config |-> LoadedDict(config_file),
               handle |-> "none"]

\* the caller builds a dictionary of its own
NewDocument(doc) ==
    /\ \E id \in {IF heap.config = "a" THEN "b" ELSE "a"} :
          heap' = [heap EXCEPT !.objs[id] = doc, !.handle = id]
    /\ call' = [op |-> "new_document"]
    /\ ret' = None
    /\ UNCHANGED <<df, config_file, held, batch>>

\* get_config(): `return self._config`, the dictionary itself
GetConfig ==
    /\ heap' = [heap EXCEPT !.handle = heap.config]
    /\ call' = [op |-> "get_config"]
    /\ ret' = Return(held)
    /\ UNCHANGED <<df, config_file, held, batch>>

\* the assignments a caller makes to the dictionary it holds
Edits == {"days_per_year = '330'", "days_per_year = 300", "del headers['CHEM']"}

Edited(doc, edit) ==
    CASE edit = "days_per_year = '330'" ->
            [k \in DOMAIN doc \cup {"days_per_year"} |->
                IF k = "days_per_year" THEN [t |-> "str", v |-> <<"3", "3", "0">>]
                ELSE doc[k]]
      [] edit = "days_per_year = 300" ->
            [k \in DOMAIN doc \cup {"days_per_year"} |->
                IF k = "days_per_year" THEN JsonInt(300) ELSE doc[k]]
      [] edit = "del headers['CHEM']" ->
            [doc EXCEPT !.headers = [d \in DOMAIN doc.headers \ {"CHEM"} |-> doc.headers[d]]]

\* the caller assigns into the dictionary it holds; the dictionary may be the
\* one get_config returned
Edit(edit) ==
    /\ heap.handle # "none"
    /\ heap' = [heap EXCEPT !.objs[heap.handle] = Edited(heap.objs[heap.handle], edit)]
    /\ held' = heap'.objs[heap.config]
    /\ call' = [op |-> "edit", edit |-> edit]
    /\ ret' = None
    /\ UNCHANGED <<df, config_file, batch>>

\* the dictionary _validate_config returns for the dictionary `id`
ValidatedDict(id, r) == IF Raised(r) THEN "DEFAULT_CONFIG" ELSE id

\* the dictionaries once _validate_config has run on `id`: it fills the missing
\* costs into the dictionary it accepts
ValidatedObjs(id, r) ==
    IF Raised(r) THEN heap.objs ELSE [heap.objs EXCEPT ![id] = r.val]

\* save_config(config_data) with the dictionary the caller holds; the file is
\* written, or open() or json.dump raises and the file is as it was or is left
\* truncated
SaveConfig(written) ==
    /\ heap.handle # "none"
    /\ \E r \in {validate_config_try(JsonObject(heap.objs[heap.handle]))} :
          /\ call' = [op |-> "save_config", config_data |-> heap.objs[heap.handle],
                      written |-> written, before |-> held]
          /\ IF written
             THEN /\ config_file' =
                        JsonFile(JsonObject(
                            ValidatedObjs(heap.handle, r)[ValidatedDict(heap.handle, r)]))
                  /\ heap' = [heap EXCEPT !.objs = ValidatedObjs(heap.handle, r),
                                          !.config = ValidatedDict(heap.handle, r)]
                  /\ ret' = Return(None)
             ELSE /\ config_file' \in {config_file, InvalidJsonFile}
                  /\ heap' = [heap EXCEPT !.objs = ValidatedObjs(heap.handle, r)]
                  /\ ret' = Raise("ConfigurationError")
    /\ held' = heap'.objs[heap'.config]
    /\ UNCHANGED <<df, batch>>

NextSave ==
    \/ \E doc \in SaveDocuments : NewDocument(doc)
    \/ GetConfig
    \/ \E edit \in Edits : Edit(edit)
    \/ \E written \in BOOLEAN : SaveConfig(written)

SpecSave == InitSave /\ [][NextSave]_vars

\* the configuration passes validation: an integer days_per_year, IA, CBC and
\* CHEM each with brand_cols and workload_cols of equal length, a cost_per_test
\* entry for each of them
PassesValidation(config) ==
    /\ {"days_per_year", "headers", "cost_per_test"} \subseteq DOMAIN config
    /\ config.days_per_year.t \in {"int", "bool"}
    /\ \A dept \in Departments :
          /\ dept \in DOMAIN config.headers
          /\ {"brand_cols", "workload_cols"} \subseteq DOMAIN config.headers[dept]
          /\ Len(config.headers[dept].brand_cols) = Len(config.headers[dept].workload_cols)
          /\ dept \in DOMAIN config.cost_per_test

\* the document is valid apart from cost_per_test entries it may lack
Acceptable(doc) ==
    /\ {"days_per_year", "headers"} \subseteq DOMAIN doc
    /\ doc.days_per_year.t \in {"int", "bool"}
    /\ \A dept \in Departments :
          /\ dept \in DOMAIN doc.headers
          /\ {"brand_cols", "workload_cols"} \subseteq DOMAIN doc.headers[dept]
          /\ Len(doc.headers[dept].brand_cols) = Len(doc.headers[dept].workload_cols)

\* C30 -- after construction and after any sequence of save_config calls the
\* configuration held by ConfigManager passes validation; saving an invalid
\* document stores and installs DEFAULT_CONFIG instead of the document; when
\* writing the file fails save_config raises ConfigurationError and leaves the
\* held configuration unchanged.
C30_HeldConfigValid ==
    /\ call.op \in {"ConfigManager", "save_config"} => PassesValidation(held)
    /\ (call.op = "save_config" /\ call.written /\ ~Acceptable(call.config_data)) =>
          /\ held = DEFAULT_CONFIG
          /\ config_file = JsonFile(JsonObject(DEFAULT_CONFIG))
    /\ (call.op = "save_config" /\ ~call.written) =>
          /\ ret = Raise("ConfigurationError")
          /\ held = call.before

=============================================================================
